---- MODULE Spec2Model ----
(***************************************************************************)
(* Model of the red-black tree of pantonov/rbt (src/rbt.go).               *)
(* The heap of RbTreeNode objects is a set of node identities 1..MaxNodes; *)
(* pointer fields are functions from identities to identities, Nil being   *)
(* the nil pointer.  Every method is a pure operator on a heap record `h`  *)
(* and an action applies it to the variables.  A nil dereference (a Go     *)
(* run-time panic) sets h.panic and stops the method where it happens.     *)
(***************************************************************************)
EXTENDS Integers, Naturals, FiniteSets, Sequences, TLC

\* ---- bounds ----
\* node identities of the heap
MaxNodes == 6
\* keys of the specification with values and history (Spec)
MaxKey == 4
\* keys of the specification of tree shapes (SpecShape)
MaxShapeKey == 7

Nil == 0
Nodes == 1..MaxNodes
Ptr == Nodes \cup {Nil}
Keys == 1..MaxKey
ShapeKeys == 1..MaxShapeKey
KeyDom == Keys \cup ShapeKeys
\* two distinguishable values: the tree never inspects a Value
Vals == {1, 2}
\* the specification of tree shapes stores one value
ShapeVals == {1}
LoopFuel == MaxNodes + 2

VARIABLES root, size, left, right, parent, key, Value, isred,
          panicked, looping, model, lastOp

vars == <<root, size, left, right, parent, key, Value, isred,
          panicked, looping, model, lastOp>>

\* the key comparison function of the tests: integer <
less(k1, k2) == k1 < k2

\* the RbTree object and the RbTreeNode objects as one record; log is the
\* trace of the call being made: the rotations it calls and the iterations
\* of the loop of rb_insert_fixup, each with the depth of x
H == [root |-> root, size |-> size, left |-> left, right |-> right,
      parent |-> parent, key |-> key, Value |-> Value, isred |-> isred,
      panic |-> FALSE, loop |-> FALSE, log |-> << >>]

\* a call of left_rotate or right_rotate
Rotated(h) == [h EXCEPT !.log = Append(@, [e |-> "rotate", d |-> 0])]

Panic(h) == [h EXCEPT !.panic = TRUE]
Diverge(h) == [h EXCEPT !.loop = TRUE]
Bad(h) == h.panic \/ h.loop

isBlack(h, n) == n = Nil \/ ~h.isred[n]

isRed(h, n) == n # Nil /\ h.isred[n]

\* n.min(): descend the left links (n is not nil)
RECURSIVE min(_, _)
min(h, n) == IF h.left[n] # Nil THEN min(h, h.left[n]) ELSE n

\* n.max(): descend the right links (n is not nil)
RECURSIVE max(_, _)
max(h, n) == IF h.right[n] # Nil THEN max(h, h.right[n]) ELSE n

left_rotate(h, x) ==
  IF Bad(h) THEN h
  ELSE IF x = Nil THEN Panic(h)
  ELSE LET y == h.right[x] IN
    IF y = Nil THEN Panic(h)
    ELSE LET yl == h.left[y]
             xp == h.parent[x]
             h1 == [h EXCEPT !.right[x] = yl]
             h2 == IF yl # Nil THEN [h1 EXCEPT !.parent[yl] = x] ELSE h1
             h3 == [h2 EXCEPT !.parent[y] = xp]
             h4 == IF xp = Nil THEN [h3 EXCEPT !.root = y]
                   ELSE IF x = h3.left[xp] THEN [h3 EXCEPT !.left[xp] = y]
                   ELSE [h3 EXCEPT !.right[xp] = y]
         IN Rotated([h4 EXCEPT !.left[y] = x, !.parent[x] = y])

right_rotate(h, y) ==
  IF Bad(h) THEN h
  ELSE IF y = Nil THEN Panic(h)
  ELSE LET x == h.left[y] IN
    IF x = Nil THEN Panic(h)
    ELSE LET xr == h.right[x]
             yp == h.parent[y]
             h1 == [h EXCEPT !.left[y] = xr]
             h2 == IF xr # Nil THEN [h1 EXCEPT !.parent[xr] = y] ELSE h1
             h3 == [h2 EXCEPT !.parent[x] = yp]
             h4 == IF yp = Nil THEN [h3 EXCEPT !.root = x]
                   ELSE IF y = h3.left[yp] THEN [h3 EXCEPT !.left[yp] = x]
                   ELSE [h3 EXCEPT !.right[yp] = x]
         IN Rotated([h4 EXCEPT !.right[x] = y, !.parent[y] = x])

\* rbtransplant without the back-reference: v.parent = u.parent left out
rbtransplantNoBackref(h, u, v) ==
  LET up == h.parent[u] IN
  IF up = Nil THEN [h EXCEPT !.root = v]
  ELSE IF u = h.left[up] THEN [h EXCEPT !.left[up] = v]
  ELSE [h EXCEPT !.right[up] = v]

\* rbtransplant without the case of the root: t.root = v left out
rbtransplantKeepRoot(h, u, v) ==
  LET up == h.parent[u]
      h1 == IF up = Nil THEN h
            ELSE IF u = h.left[up] THEN [h EXCEPT !.left[up] = v]
            ELSE [h EXCEPT !.right[up] = v]
  IN IF v = Nil THEN h1 ELSE [h1 EXCEPT !.parent[v] = up]

\* u is not nil
rbtransplant(h, u, v) ==
  LET up == h.parent[u]
      h1 == IF up = Nil THEN [h EXCEPT !.root = v]
            ELSE IF u = h.left[up] THEN [h EXCEPT !.left[up] = v]
            ELSE [h EXCEPT !.right[up] = v]
  IN IF v = Nil THEN h1 ELSE [h1 EXCEPT !.parent[v] = up]

\* FindNode with the two comparisons in each other's place
RECURSIVE FindFromSwapped(_, _, _)
FindFromSwapped(h, x, k) ==
  IF x = Nil THEN Nil
  ELSE IF less(k, h.key[x]) THEN FindFromSwapped(h, h.left[x], k)
  ELSE IF less(h.key[x], k) THEN FindFromSwapped(h, h.right[x], k)
  ELSE x

\* t.FindNode(key) started at node x
RECURSIVE FindFrom(_, _, _)
FindFrom(h, x, k) ==
  IF x = Nil THEN Nil
  ELSE IF less(h.key[x], k) THEN FindFrom(h, h.left[x], k)
  ELSE IF less(k, h.key[x]) THEN FindFrom(h, h.right[x], k)
  ELSE x

FindNode(h, k) == FindFrom(h, h.root, k)

Find(h, k) ==
  LET n == FindNode(h, k) IN IF n # Nil THEN h.Value[n] ELSE Nil

Last(h) == IF h.root = Nil THEN Nil ELSE min(h, h.root)

First(h) == IF h.root = Nil THEN Nil ELSE max(h, h.root)

\* the parent-chain ascent of Prev: for y != nil && x == y.right
RECURSIVE PrevUp(_, _, _)
PrevUp(h, x, y) ==
  IF y # Nil /\ x = h.right[y] THEN PrevUp(h, y, h.parent[y]) ELSE y

Prev(h, x) ==
  IF h.right[x] # Nil THEN min(h, h.right[x]) ELSE PrevUp(h, x, h.parent[x])

\* Next climbing as Prev does: for y != nil && x == y.right
RECURSIVE NextUpCopied(_, _, _)
NextUpCopied(h, x, y) ==
  IF y # Nil /\ x = h.right[y] THEN NextUpCopied(h, y, h.parent[y]) ELSE y

\* the parent-chain ascent of Next: for y != nil && x == y.left
RECURSIVE NextUp(_, _, _)
NextUp(h, x, y) ==
  IF y # Nil /\ x = h.left[y] THEN NextUp(h, y, h.parent[y]) ELSE y

NextNode(h, x) ==
  IF h.left[x] # Nil THEN max(h, h.left[x]) ELSE NextUp(h, x, h.parent[x])

\* rb_insert_fixup without its loop: t.root.isred = false alone
rb_insert_root_only(h, x, fuel) ==
  IF h.root = Nil THEN Panic(h) ELSE [h EXCEPT !.isred[h.root] = FALSE]

\* number of parent links from x up to the root
RECURSIVE Depth(_, _, _)
Depth(h, x, fuel) ==
  IF h.parent[x] = Nil \/ fuel = 0 THEN 0
  ELSE 1 + Depth(h, h.parent[x], fuel - 1)

\* the body of the loop of rb_insert_fixup is entered with x
Entered(h, x) ==
  [h EXCEPT !.log = Append(@, [e |-> "loop", d |-> Depth(h, x, MaxNodes)])]

\* the colours of the black-uncle case exchanged: p red, g black
RecolourSwapped(h, p, g) == [h EXCEPT !.isred[p] = TRUE, !.isred[g] = FALSE]

\* x.parent.isred, x.parent.parent.isred = false, true
Recolour(h, p, g) == [h EXCEPT !.isred[p] = FALSE, !.isred[g] = TRUE]

RECURSIVE rb_insert_fixup(_, _, _)

\* one iteration of the loop of rb_insert_fixup: isRed(x.parent) holds
FixupIteration(h, x, fuel) ==
    LET p == h.parent[x]
        g == h.parent[p]
    IN IF g = Nil THEN Panic(h)
       ELSE IF p = h.left[g] THEN
         LET y == h.right[g] IN
         IF isRed(h, y) THEN
           rb_insert_fixup([h EXCEPT !.isred[p] = FALSE, !.isred[y] = FALSE,
                                     !.isred[g] = TRUE], g, fuel - 1)
         ELSE
           LET rot == x = h.right[p]
               x1 == IF rot THEN p ELSE x
               h1 == IF rot THEN left_rotate(h, x1) ELSE h
           IN IF Bad(h1) THEN h1
              ELSE LET p1 == h1.parent[x1] IN
                IF p1 = Nil THEN Panic(h1)
                ELSE LET g1 == h1.parent[p1] IN
                  IF g1 = Nil THEN Panic([h1 EXCEPT !.isred[p1] = FALSE])
                  ELSE rb_insert_fixup(
                         right_rotate(Recolour(h1, p1, g1), g1),
                         x1, fuel - 1)
       ELSE
         LET y == h.left[g] IN
         IF isRed(h, y) THEN
           rb_insert_fixup([h EXCEPT !.isred[p] = FALSE, !.isred[y] = FALSE,
                                     !.isred[g] = TRUE], g, fuel - 1)
         ELSE
           LET rot == x = h.left[p]
               x1 == IF rot THEN p ELSE x
               h1 == IF rot THEN right_rotate(h, x1) ELSE h
           IN IF Bad(h1) THEN h1
              ELSE LET p1 == h1.parent[x1] IN
                IF p1 = Nil THEN Panic(h1)
                ELSE LET g1 == h1.parent[p1] IN
                  IF g1 = Nil THEN Panic([h1 EXCEPT !.isred[p1] = FALSE])
                  ELSE rb_insert_fixup(
                         left_rotate(Recolour(h1, p1, g1), g1),
                         x1, fuel - 1)

\* the loop of rb_insert_fixup, then t.root.isred = false
rb_insert_fixup(h, x, fuel) ==
  IF Bad(h) THEN h
  ELSE IF fuel = 0 THEN Diverge(h)
  ELSE IF x = Nil THEN Panic(h)
  ELSE IF ~isRed(h, h.parent[x]) THEN
    IF h.root = Nil THEN Panic(h) ELSE [h EXCEPT !.isred[h.root] = FALSE]
  ELSE FixupIteration(Entered(h, x), x, fuel)

\* the colouring left out
ColourSkipped(h, n, c) == h

\* n.isred = c when n is not nil
Colour(h, n, c) == IF n = Nil THEN h ELSE [h EXCEPT !.isred[n] = c]

RECURSIVE rb_delete_fixup(_, _, _, _)

\* x == parent.left, the sibling w == parent.right is black with a red child:
\* if w != nil { w.isred = parent.isred; w.right black }; parent.isred = false;
\* t.left_rotate(parent); x = t.root
LeftAbsorb(h, par, fuel) ==
  IF Bad(h) THEN h
  ELSE LET w == h.right[par]
           a == IF w = Nil THEN h
                ELSE Colour([h EXCEPT !.isred[w] = h.isred[par]],
                            h.right[w], FALSE)
           r == left_rotate([a EXCEPT !.isred[par] = FALSE], par)
       IN rb_delete_fixup(r, r.root, par, fuel - 1)

\* x == parent.left after the red-sibling step, w == parent.right
LeftSibling(h, par, fuel) ==
  IF Bad(h) THEN h
  ELSE LET w == h.right[par] IN
    IF w # Nil /\ isBlack(h, h.left[w]) /\ isBlack(h, h.right[w])
    THEN rb_delete_fixup([h EXCEPT !.isred[w] = TRUE], par, h.parent[par],
                         fuel - 1)
    ELSE IF w # Nil /\ isBlack(h, h.right[w])
    THEN LeftAbsorb(right_rotate([Colour(h, h.left[w], FALSE)
                                    EXCEPT !.isred[w] = TRUE], w), par, fuel)
    ELSE LeftAbsorb(h, par, fuel)

\* the mirror image: x == parent.right, w == parent.left
RightAbsorb(h, par, fuel) ==
  IF Bad(h) THEN h
  ELSE LET w == h.left[par]
           a == IF w = Nil THEN h
                ELSE Colour([h EXCEPT !.isred[w] = h.isred[par]],
                            h.left[w], FALSE)
           r == right_rotate([a EXCEPT !.isred[par] = FALSE], par)
       IN rb_delete_fixup(r, r.root, par, fuel - 1)

RightSibling(h, par, fuel) ==
  IF Bad(h) THEN h
  ELSE LET w == h.left[par] IN
    IF w # Nil /\ isBlack(h, h.left[w]) /\ isBlack(h, h.right[w])
    THEN rb_delete_fixup([h EXCEPT !.isred[w] = TRUE], par, h.parent[par],
                         fuel - 1)
    ELSE IF w # Nil /\ isBlack(h, h.left[w])
    THEN RightAbsorb(left_rotate(Colour([h EXCEPT !.isred[w] = TRUE],
                                        h.right[w], FALSE), w), par, fuel)
    ELSE RightAbsorb(h, par, fuel)

\* for x != t.root && isBlack(x) { ... }; if x != nil { x.isred = false }
rb_delete_fixup(h, x, par, fuel) ==
  IF Bad(h) THEN h
  ELSE IF fuel = 0 THEN Diverge(h)
  ELSE IF ~(x # h.root /\ isBlack(h, x)) THEN Colour(h, x, FALSE)
  ELSE IF par = Nil THEN Panic(h)
  ELSE IF x = h.left[par] THEN
    IF isRed(h, h.right[par])
    THEN LeftSibling(left_rotate([h EXCEPT !.isred[h.right[par]] = FALSE,
                                           !.isred[par] = TRUE], par),
                     par, fuel)
    ELSE LeftSibling(h, par, fuel)
  ELSE
    IF isRed(h, h.left[par])
    THEN RightSibling(right_rotate([h EXCEPT !.isred[h.left[par]] = FALSE,
                                             !.isred[par] = TRUE], par),
                      par, fuel)
    ELSE RightSibling(h, par, fuel)

\* the two-child case done by copying: the key and Value of y are copied
\* into z, and y is the node spliced out
SpliceBothByCopy(h, z, y) ==
  LET x == h.right[y]
      h1 == rbtransplant(h, y, x)
  IN [h |-> [h1 EXCEPT !.key[z] = h.key[y], !.Value[z] = h.Value[y]],
      x |-> x, yred |-> h.isred[y], par |-> h.parent[y]]

\* the two-child case without y.isred = z.isred
SpliceBothKeepColour(h, z, y) ==
  LET x == h.right[y]
      direct == h.parent[y] = z
      h1 == IF direct
            THEN (IF x = Nil THEN h ELSE [h EXCEPT !.parent[x] = y])
            ELSE [rbtransplant(h, y, x) EXCEPT !.right[y] = h.right[z],
                                               !.parent[h.right[z]] = y]
      h2 == rbtransplant(h1, z, y)
  IN [h |-> [h2 EXCEPT !.left[y] = h.left[z], !.parent[h.left[z]] = y],
      x |-> x, yred |-> h.isred[y],
      par |-> IF direct /\ x = Nil THEN y ELSE h.parent[z]]

\* z has two children and y == z.right.min(): y takes the place of z
SpliceBoth(h, z, y) ==
  LET x == h.right[y]
      direct == h.parent[y] = z
      h1 == IF direct
            THEN (IF x = Nil THEN h ELSE [h EXCEPT !.parent[x] = y])
            ELSE [rbtransplant(h, y, x) EXCEPT !.right[y] = h.right[z],
                                               !.parent[h.right[z]] = y]
      h2 == rbtransplant(h1, z, y)
  IN [h |-> [h2 EXCEPT !.left[y] = h.left[z], !.parent[h.left[z]] = y,
                       !.isred[y] = h.isred[z]],
      x |-> x, yred |-> h.isred[y],
      par |-> IF direct /\ x = Nil THEN y ELSE h.parent[z]]

\* DeleteNode up to the fixup guard: the three splice cases.
\* Yields the heap with x, y_original_isred and parent.
Splice(h, z) ==
  IF h.left[z] = Nil THEN
    [h |-> rbtransplant(h, z, h.right[z]), x |-> h.right[z],
     yred |-> h.isred[z], par |-> h.parent[z]]
  ELSE IF h.right[z] = Nil THEN
    [h |-> rbtransplant(h, z, h.left[z]), x |-> h.left[z],
     yred |-> h.isred[z], par |-> h.parent[z]]
  ELSE SpliceBoth(h, z, min(h, h.right[z]))

\* the guard with the negation dropped: if y_original_isred && x != nil
FixupGuardInverted(yred, x) == yred /\ x # Nil

\* the guard of the deletion fixup: if !y_original_isred && x != nil
FixupGuard(yred, x) == ~yred /\ x # Nil

\* DeleteNode without t.size--
ShrinkNot(h) == h

\* t.size-- of a call that returns
Shrink(h) == IF Bad(h) THEN h ELSE [h EXCEPT !.size = h.size - 1]

AfterSplice(s) ==
  IF FixupGuard(s.yred, s.x)
  THEN Shrink(rb_delete_fixup(s.h, s.x, s.par, LoopFuel))
  ELSE Shrink(s.h)

DeleteNode(h, z) == AfterSplice(Splice(h, z))

\* the descent loop without the branch of the equal key
RECURSIVE DescendPast(_, _, _, _)
DescendPast(h, x, y, k) ==
  IF x = Nil THEN [found |-> Nil, y |-> y]
  ELSE IF less(h.key[x], k) THEN DescendPast(h, h.left[x], x, k)
  ELSE DescendPast(h, h.right[x], x, k)

\* the descent loop of Insert: the node holding an equal key, or the last
\* node visited (y)
RECURSIVE Descend(_, _, _, _)
Descend(h, x, y, k) ==
  IF x = Nil THEN [found |-> Nil, y |-> y]
  ELSE IF less(h.key[x], k) THEN Descend(h, h.left[x], x, k)
  ELSE IF less(k, h.key[x]) THEN Descend(h, h.right[x], x, k)
  ELSE [found |-> x, y |-> x]

\* the new node linked on the other side: if t.less(key, y.key)
AttachSwapped(h, y, k) == less(k, h.key[y])

\* where the new node z is linked below y
AttachLeft(h, y, k) == less(h.key[y], k)

\* the overwrite falling through to t.size++
OverwriteAndCount(h, x, v) == [h EXCEPT !.Value[x] = v, !.size = h.size + 1]

\* Insert reached a node x with an equal key: x.Value = value
Overwrite(h, x, v) == [h EXCEPT !.Value[x] = v]

\* Insert(key, value); z is the node that &RbTreeNode{...} allocates
Insert(h, k, v, z) ==
  LET d == Descend(h, h.root, Nil, k) IN
  IF d.found # Nil
  THEN [h |-> Overwrite(h, d.found, v), ret |-> FALSE]
  ELSE
    LET y == d.y
        h1 == [h EXCEPT !.parent[z] = y, !.isred[z] = TRUE, !.key[z] = k,
                        !.Value[z] = v, !.left[z] = Nil, !.right[z] = Nil]
        h2 == IF y = Nil THEN [h1 EXCEPT !.root = z]
              ELSE IF AttachLeft(h1, y, k) THEN [h1 EXCEPT !.left[y] = z]
              ELSE [h1 EXCEPT !.right[y] = z]
        h3 == rb_insert_fixup(h2, z, LoopFuel)
    IN [h |-> IF Bad(h3) THEN h3 ELSE [h3 EXCEPT !.size = h3.size + 1],
        ret |-> TRUE]

\* Delete without the nil test: t.DeleteNode(t.FindNode(key))
DeleteUnchecked(h, k) ==
  LET z == FindNode(h, k) IN IF z # Nil THEN DeleteNode(h, z) ELSE Panic(h)

Delete(h, k) ==
  LET z == FindNode(h, k) IN IF z # Nil THEN DeleteNode(h, z) ELSE h

\* Clear without t.size = 0
ClearRootOnly(h) == [h EXCEPT !.root = Nil]

Clear(h) == [h EXCEPT !.root = Nil, !.size = 0]

\* ---- the nodes of the tree ----
\* the nodes below n, right subtree first (d bounds the depth)
RECURSIVE Walk(_, _, _)
Walk(h, n, d) ==
  IF n = Nil \/ d = 0 THEN << >>
  ELSE Walk(h, h.right[n], d - 1) \o <<n>> \o Walk(h, h.left[n], d - 1)

Range(s) == { s[i] : i \in 1..Len(s) }

\* nodes reachable from the root by left/right links
Reach(h) == Range(Walk(h, h.root, MaxNodes))

RECURSIVE Closure(_, _)
Closure(h, S) ==
  LET T == S \cup { h.left[n] : n \in S } \cup { h.right[n] : n \in S }
             \cup { h.parent[n] : n \in S }
      U == T \ {Nil}
  IN IF U = S THEN S ELSE Closure(h, U)

\* nodes the garbage collector keeps: reachable by any pointer field
Live(h) ==
  LET R == Reach(h) IN
  IF \A n \in R : h.parent[n] \in R \cup {Nil} THEN R ELSE Closure(h, R)

RECURSIVE SetToSeq(_)
SetToSeq(S) ==
  IF S = {} THEN << >>
  ELSE LET m == CHOOSE n \in S : \A o \in S : n <= o
       IN <<m>> \o SetToSeq(S \ {m})

\* A node's identity is its address, which the allocator picks and the
\* program only compares: the model keeps one heap of every class of heaps
\* equal up to the addresses, the one whose nodes are numbered in walk order.
\* A node nothing refers to any more is collected and its slot zeroed.
Placement(h) ==
  LET w == Walk(h, h.root, MaxNodes)
      R == Range(w)
  IN IF \A n \in R : h.parent[n] \in R \cup {Nil} THEN w
     ELSE w \o SetToSeq(Closure(h, R) \ R)

Relocate(h) ==
  LET order == Placement(h)
      len == Len(order)
      newId == [n \in Ptr |->
                 IF n # Nil /\ \E i \in 1..len : order[i] = n
                 THEN CHOOSE i \in 1..len : order[i] = n ELSE Nil]
      P(f) == [i \in Nodes |-> IF i <= len THEN newId[f[order[i]]] ELSE Nil]
      D(f, d) == [i \in Nodes |-> IF i <= len THEN f[order[i]] ELSE d]
  IN [h EXCEPT !.root = newId[h.root],
               !.left = P(h.left), !.right = P(h.right),
               !.parent = P(h.parent), !.key = D(h.key, 0),
               !.Value = D(h.Value, Nil), !.isred = D(h.isred, FALSE)]

\* the slot of the next allocation, Nil when the heap bound is reached
Fresh(h) ==
  LET F == Nodes \ Live(h) IN
  IF F = {} THEN Nil ELSE CHOOSE n \in F : \A m \in F : n <= m

\* ---- the state machine ----
Commit(h) ==
  \E c \in {Relocate(h)} :
  /\ root' = c.root
  /\ size' = c.size
  /\ left' = c.left
  /\ right' = c.right
  /\ parent' = c.parent
  /\ key' = c.key
  /\ Value' = c.Value
  /\ isred' = c.isred
  /\ panicked' = c.panic
  /\ looping' = c.loop

NoOp == [op |-> "New", k |-> 0, v |-> Nil, ret |-> FALSE, re |-> FALSE]

Init ==
  /\ root = Nil
  /\ size = 0
  /\ left = [n \in Nodes |-> Nil]
  /\ right = [n \in Nodes |-> Nil]
  /\ parent = [n \in Nodes |-> Nil]
  /\ key = [n \in Nodes |-> 0]
  /\ Value = [n \in Nodes |-> Nil]
  /\ isred = [n \in Nodes |-> FALSE]
  /\ panicked = FALSE
  /\ looping = FALSE
  /\ model = [k \in KeyDom |-> Nil]
  /\ lastOp = NoOp

\* no call has panicked or failed to return
Running == ~panicked /\ ~looping

\* the call before was a Delete or DeleteNode that removed key k
Removed(k) ==
  lastOp.op \in {"Delete", "DeleteNode"} /\ lastOp.ret /\ lastOp.k = k

\* what lastOp records of a call, when the specification keeps the history
Record(hist, op) == lastOp' = IF hist THEN op ELSE lastOp

\* a call t.Insert(k, v); z is the node it allocates for a new key
InsertStep(k, v, z, hist) ==
  /\ Running
  /\ FindNode(H, k) # Nil \/ z # Nil
  /\ \E r \in {Insert(H, k, v, z)} :
     /\ Commit(r.h)
     /\ Record(hist, [op |-> "Insert", k |-> k, v |-> v, ret |-> r.ret,
                      re |-> Removed(k)])
  /\ model' = [model EXCEPT ![k] = v]

\* a call t.Delete(k)
DeleteStep(k, hist) ==
  /\ Running
  /\ Commit(Delete(H, k))
  /\ Record(hist, [op |-> "Delete", k |-> k, v |-> Nil,
                   ret |-> FindNode(H, k) # Nil, re |-> FALSE])
  /\ model' = [model EXCEPT ![k] = Nil]

\* a call t.DeleteNode(z) on a node of the tree
DeleteNodeStep(z, hist) ==
  /\ Running
  /\ Commit(DeleteNode(H, z))
  /\ Record(hist, [op |-> "DeleteNode", k |-> key[z], v |-> Nil,
                   ret |-> TRUE, re |-> FALSE])
  /\ model' = [model EXCEPT ![key[z]] = Nil]

\* a call t.Clear()
ClearStep ==
  /\ Running
  /\ Commit(Clear(H))
  /\ Record(TRUE, [op |-> "Clear", k |-> 0, v |-> Nil, ret |-> FALSE,
                   re |-> FALSE])
  /\ model' = [k \in KeyDom |-> Nil]

DoInsert ==
  \E z \in {Fresh(H)} : \E k \in Keys, v \in Vals : InsertStep(k, v, z, TRUE)
DoDelete == \E k \in Keys : DeleteStep(k, TRUE)
DoDeleteNode == \E z \in Reach(H) : DeleteNodeStep(z, TRUE)

Next == DoInsert \/ DoDelete \/ DoDeleteNode \/ ClearStep

Spec == Init /\ [][Next]_vars

\* the same calls over more keys, one value and no history
ShapeInsert ==
  \E z \in {Fresh(H)} : \E k \in ShapeKeys, v \in ShapeVals :
    InsertStep(k, v, z, FALSE)
ShapeDelete == \E k \in ShapeKeys : DeleteStep(k, FALSE)
ShapeDeleteNode == \E z \in Reach(H) : DeleteNodeStep(z, FALSE)

NextShape == ShapeInsert \/ ShapeDelete \/ ShapeDeleteNode

SpecShape == Init /\ [][NextShape]_vars

\* ---- the calls over the keys of the shapes, Insert leaving its trace ----
\* a call t.Insert(k, v) as InsertStep makes it; lastOp keeps the trace of
\* the call and nothing else
TraceInsert ==
  /\ Running
  /\ \E z \in {Fresh(H)} : \E k \in ShapeKeys, v \in ShapeVals :
       /\ FindNode(H, k) # Nil \/ z # Nil
       /\ \E r \in {Insert(H, k, v, z)} :
            /\ Commit(r.h)
            /\ lastOp' = [op |-> "Insert", log |-> r.h.log]
       /\ model' = [model EXCEPT ![k] = v]

\* a call t.Delete(k) or t.DeleteNode(z)
TraceDelete ==
  /\ lastOp' = [op |-> "Delete"]
  /\ \/ \E k \in ShapeKeys : Running /\ Commit(Delete(H, k))
                               /\ model' = [model EXCEPT ![k] = Nil]
     \/ \E z \in Reach(H) : Running /\ Commit(DeleteNode(H, z))
                              /\ model' = [model EXCEPT ![key[z]] = Nil]

NextTrace == TraceInsert \/ TraceDelete

SpecTrace == Init /\ [][NextTrace]_vars

\* ---- TestDelete: fill a new tree, then drain it ----
Filling == lastOp.op \in {"New", "Insert"}

\* newtree: the Insert calls on a new tree
Fill ==
  /\ Filling
  /\ \E z \in {Fresh(H)} : \E k \in ShapeKeys, v \in ShapeVals :
       InsertStep(k, v, z, TRUE)

\* one iteration of a drain loop, n being r.First() or r.Last():
\* r.DeleteNode(n).  The record counts the deletions of the loop (n) and
\* keeps Size() as it was when the loop began (of).
DrainStep(z, loop) ==
  /\ Running
  /\ z # Nil
  /\ Commit(DeleteNode(H, z))
  /\ lastOp' = [op |-> loop, k |-> key[z], v |-> Nil, ret |-> TRUE,
                re |-> FALSE,
                n |-> IF Filling THEN 1 ELSE lastOp.n + 1,
                of |-> IF Filling THEN size ELSE lastOp.of]
  /\ model' = [model EXCEPT ![key[z]] = Nil]

\* for n := r.First(); nil != n; n = r.First() { r.DeleteNode(n) }
DrainFirst ==
  /\ Filling \/ lastOp.op = "DrainFirst"
  /\ DrainStep(First(H), "DrainFirst")

\* for n := r.Last(); nil != n; n = r.Last() { r.DeleteNode(n) }
DrainLast ==
  /\ Filling \/ lastOp.op = "DrainLast"
  /\ DrainStep(Last(H), "DrainLast")

NextDrain == Fill \/ DrainFirst \/ DrainLast

SpecDrain == Init /\ [][NextDrain]_vars

\* ======================= properties =======================

\* keys held by the nodes below n (n included)
RECURSIVE SubKeys(_, _)
SubKeys(h, n) ==
  IF n = Nil THEN {}
  ELSE {h.key[n]} \cup SubKeys(h, h.left[n]) \cup SubKeys(h, h.right[n])

\* number of black nodes on every path from n down to an empty position,
\* -1 when two paths differ
RECURSIVE BlackHeight(_, _)
BlackHeight(h, n) ==
  IF n = Nil THEN 0
  ELSE LET l == BlackHeight(h, h.left[n])
           r == BlackHeight(h, h.right[n])
       IN IF l < 0 \/ r < 0 \/ l # r THEN -1
          ELSE l + (IF h.isred[n] THEN 0 ELSE 1)

TreeKeys == { key[n] : n \in Reach(H) }

\* C1: the tree is a map with unique keys: after every completed call the
\* keys reachable from the root are exactly the keys inserted and not deleted
\* since, no key is held by two nodes, Find(k) is the value of the latest
\* Insert(k, v) or nil, and FindNode(k) is nil or a node whose key is k.
MapRefinement ==
  Running =>
    /\ TreeKeys = { k \in KeyDom : model[k] # Nil }
    /\ \A m, n \in Reach(H) : key[m] = key[n] => m = n
    /\ \A k \in Keys : Find(H, k) = model[k]
    /\ \A k \in Keys : FindNode(H, k) # Nil => key[FindNode(H, k)] = k
    /\ \A k \in Keys : FindNode(H, k) # Nil <=> model[k] # Nil

\* C1 witness: a value was just overwritten in a tree of three or more
\* entries from which a key is gone, deleted without rebalancing
MapRefinementWitness ==
  /\ Running
  /\ lastOp.op = "Insert" /\ ~lastOp.ret /\ lastOp.v = 2
  /\ Find(H, lastOp.k) = 2
  /\ size >= 3
  /\ BlackHeight(H, root) < 0
  /\ \E k \in Keys : model[k] = Nil /\ Find(H, k) = Nil

\* C2: after every completed call, for every node all paths down to an
\* empty child position contain the same number of black nodes.
BlackHeightUniform == Running => BlackHeight(H, root) >= 0

RECURSIVE FollowNext(_, _, _)
FollowNext(h, n, fuel) ==
  IF n = Nil \/ fuel = 0 THEN << >>
  ELSE <<n>> \o FollowNext(h, NextNode(h, n), fuel - 1)

\* Last() then Prev() until nil
RECURSIVE FollowPrev(_, _, _)
FollowPrev(h, n, fuel) ==
  IF n = Nil \/ fuel = 0 THEN << >>
  ELSE <<n>> \o FollowPrev(h, Prev(h, n), fuel - 1)

Forward == FollowNext(H, First(H), MaxNodes + 1)
Backward == FollowPrev(H, Last(H), MaxNodes + 1)

\* C4: after every completed call, First() and repeated Next() visit exactly
\* Size() nodes in strictly ascending key order, from the lowest key to the
\* highest, and Last() and repeated Prev() visit the same nodes in reverse.
RoundTripTraversal ==
  Running =>
    LET f == Forward
        b == Backward
    IN /\ Len(f) = size
       /\ \A i \in 1..(Len(f) - 1) : less(key[f[i]], key[f[i + 1]])
       /\ Len(b) = Len(f)
       /\ \A i \in 1..Len(f) : b[i] = f[Len(f) + 1 - i]
       /\ Range(f) = Reach(H)
       /\ size > 0 =>
            /\ f[1] = First(H) /\ b[1] = Last(H)
            /\ \A k \in TreeKeys : ~less(k, key[First(H)])
            /\ \A k \in TreeKeys : ~less(key[Last(H)], k)

\* C4 witness: a full tree, its black heights unequal after a deletion, in
\* which the first node is not a child of the root and the walk climbs
RoundTripTraversalWitness ==
  /\ Running
  /\ size = MaxNodes
  /\ BlackHeight(H, root) < 0
  /\ Len(Forward) = MaxNodes
  /\ parent[First(H)] # root
  /\ \E i \in 1..(MaxNodes - 1) : left[Forward[i]] = Nil

\* C5: after every completed call Size() is the number of nodes reachable
\* from the root.
SizeIsCount == Running => size = Cardinality(Reach(H))

\* C5 witness: a DeleteNode call left three nodes, and so did Size()
SizeIsCountWitness ==
  /\ Running
  /\ lastOp.op = "DeleteNode"
  /\ size = 3
  /\ Cardinality(Reach(H)) = 3

\* C6: after every completed call no red node has a red parent or a red
\* child.
NoRedRed ==
  Running =>
    \A n \in Reach(H) :
      isred[n] => /\ ~isRed(H, parent[n])
                  /\ ~isRed(H, left[n])
                  /\ ~isRed(H, right[n])

\* C6 witness: red nodes below the root in a tree of five or more nodes
\* whose black heights a deletion left unequal
NoRedRedWitness ==
  /\ Running
  /\ size >= 5
  /\ BlackHeight(H, root) < 0
  /\ Cardinality({ n \in Reach(H) : isred[n] }) >= 2

\* C7: every Insert, Delete and DeleteNode call on a reachable tree returns:
\* no nil node is dereferenced and no loop runs forever.
CallsComplete == ~panicked /\ ~looping

\* C8: Insert(k, v) of a key that is present returns false and changes the
\* Value of the node that holds k and nothing else.
InsertExistingFrame ==
  [][(lastOp'.op = "Insert" /\ FindNode(H, lastOp'.k) # Nil) =>
       /\ Running'
       /\ ~lastOp'.ret
       /\ size' = size
       /\ root' = root
       /\ left' = left /\ right' = right /\ parent' = parent
       /\ isred' = isred
       /\ key' = key
       /\ Value' = [Value EXCEPT ![FindNode(H, lastOp'.k)] = lastOp'.v]]_vars

\* C8 witness: Insert overwrote 2 by 1 in a tree where another node keeps 2
InsertExistingFrameWitness ==
  /\ Running
  /\ lastOp.op = "Insert" /\ ~lastOp.ret /\ lastOp.v = 1
  /\ Find(H, lastOp.k) = 1
  /\ size = MaxKey
  /\ \E n \in Reach(H) : Value[n] = 2

\* C9: a Delete or DeleteNode call that returns for a present key k leaves
\* Find(k) nil and Size() one less; an Insert(k, v) right after it returns
\* true, makes Size() one more again and Find(k) return v.
DeleteThenReinsert ==
  [][Running' =>
       /\ (lastOp'.op \in {"Delete", "DeleteNode"} /\ lastOp'.ret) =>
            /\ Find(H', lastOp'.k) = Nil
            /\ size' = size - 1
       /\ (lastOp'.op = "Insert" /\ lastOp'.re) =>
            /\ lastOp'.ret
            /\ size' = size + 1
            /\ Find(H', lastOp'.k) = lastOp'.v]_vars

\* C9 witness: a key removed from a tree of four was inserted again
DeleteThenReinsertWitness ==
  /\ Running
  /\ lastOp.op = "Insert" /\ lastOp.re /\ lastOp.ret
  /\ size = 4
  /\ Find(H, lastOp.k) = lastOp.v

\* nodes on the longest path from n down to an empty position
RECURSIVE Height(_, _)
Height(h, n) ==
  IF n = Nil THEN 0
  ELSE LET l == Height(h, h.left[n])
           r == Height(h, h.right[n])
       IN 1 + (IF l > r THEN l ELSE r)

\* C10: after every completed call the height of the tree is at most
\* 2*log2(Size()+1), that is 2^height <= (Size()+1)^2.
HeightLogarithmic ==
  Running => 2 ^ Height(H, root) <= (size + 1) * (size + 1)

\* C11: after every completed call on a tree that is not empty the root
\* node is black.
RootBlack == (Running /\ root # Nil) => ~isred[root]

\* C11 witness: the root has a red child and a black child in a tree whose
\* black heights a deletion left unequal
RootBlackWitness ==
  /\ Running
  /\ root # Nil /\ ~isred[root]
  /\ BlackHeight(H, root) < 0
  /\ isRed(H, left[root]) /\ right[root] # Nil /\ ~isRed(H, right[root])

\* C12: Insert(k, v) returns true exactly when no node held a key equal to
\* k (neither less(k, k') nor less(k', k)) before the call; a call that
\* returns true links exactly one new node, makes Size() one more, and
\* leaves the Value of every other key as it was.
InsertNewIff ==
  [][lastOp'.op = "Insert" =>
       LET k == lastOp'.k
           z == Fresh(H)
           r == Insert(H, k, lastOp'.v, z)
       IN /\ Running'
          /\ lastOp'.ret <=>
               ~\E n \in Reach(H) : ~less(key[n], k) /\ ~less(k, key[n])
          /\ lastOp'.ret =>
               /\ size' = size + 1
               /\ z \notin Reach(H)
               /\ Reach(r.h) = Reach(H) \cup {z}
               /\ Cardinality(Reach(H')) = Cardinality(Reach(H)) + 1
               /\ Find(H', k) = lastOp'.v
               /\ \A j \in Keys \ {k} : Find(H', j) = Find(H, j)
               /\ \A n \in Reach(H) :
                    r.h.key[n] = key[n] /\ r.h.Value[n] = Value[n]]_vars

\* C12 witness: Insert returned true for the fourth key, with value 1, next
\* to a node that keeps the value 2
InsertNewIffWitness ==
  /\ Running
  /\ lastOp.op = "Insert" /\ lastOp.ret /\ lastOp.v = 1
  /\ size = MaxKey
  /\ \E n \in Reach(H) : key[n] # lastOp.k /\ Value[n] = 2

\* C13: Delete(k) of a key that no node holds returns and changes nothing:
\* Size(), the root, and the links, colours, keys and Values of all nodes
\* are as before.
DeleteAbsentFrame ==
  [][(lastOp'.op = "Delete" /\ FindNode(H, lastOp'.k) = Nil) =>
       /\ Running'
       /\ ~lastOp'.ret
       /\ size' = size
       /\ root' = root
       /\ left' = left /\ right' = right /\ parent' = parent
       /\ isred' = isred
       /\ key' = key
       /\ Value' = Value]_vars

\* C13 witness: Delete of an absent key just returned on a tree of three
\* nodes whose black heights are unequal
DeleteAbsentFrameWitness ==
  /\ Running
  /\ lastOp.op = "Delete" /\ ~lastOp.ret
  /\ FindNode(H, lastOp.k) = Nil
  /\ size = 3
  /\ BlackHeight(H, root) < 0

\* C14: from every tree built by Insert calls alone, the loop
\* DeleteNode(First()) while First() is not nil ends after exactly as many
\* deletions as Size() was when it began, with Size() = 0 and a nil root,
\* and so does the loop DeleteNode(Last()): every iteration returns and
\* makes Size() one less, and First() and Last() are nil, the root is nil
\* and Size() is 0 exactly when the deletions number the initial Size().
DrainFinishes ==
  [][lastOp'.op \in {"DrainFirst", "DrainLast"} =>
       /\ Running'
       /\ size' = size - 1
       /\ lastOp'.n <= lastOp'.of
       /\ size' = lastOp'.of - lastOp'.n
       /\ (First(H') = Nil) = (lastOp'.n = lastOp'.of)
       /\ (Last(H') = Nil) = (lastOp'.n = lastOp'.of)
       /\ (root' = Nil) = (lastOp'.n = lastOp'.of)]_vars

\* C14 witness: the loop over First() emptied a tree of MaxNodes nodes
DrainFinishesWitness ==
  /\ Running
  /\ lastOp.op = "DrainFirst"
  /\ lastOp.of = MaxNodes /\ lastOp.n = MaxNodes
  /\ First(H) = Nil /\ root = Nil /\ size = 0

\* C16: on a new tree that only Insert calls have changed, after every
\* Insert the root is black, no red node has a red child or a red parent,
\* and every path from the root to an empty position has the same number of
\* black nodes.
InsertOnlyRedBlack ==
  Filling =>
    /\ Running
    /\ root # Nil => ~isred[root]
    /\ \A n \in Reach(H) :
         isred[n] => /\ ~isRed(H, parent[n])
                     /\ ~isRed(H, left[n])
                     /\ ~isRed(H, right[n])
    /\ BlackHeight(H, root) >= 0

\* C16 witness: inserts alone built a tree of MaxNodes nodes of black
\* height 2 with red nodes in it, and the last of them made a new node
InsertOnlyRedBlackWitness ==
  /\ Running
  /\ lastOp.op = "Insert" /\ lastOp.ret
  /\ size = MaxNodes
  /\ BlackHeight(H, root) = 2
  /\ \E n \in Reach(H) : isred[n]

\* the node among R holding the least key greater than the key of n, or nil
After(h, R, n) ==
  IF \E m \in R : less(h.key[n], h.key[m])
  THEN CHOOSE m \in R :
         /\ less(h.key[n], h.key[m])
         /\ \A o \in R : less(h.key[n], h.key[o]) => ~less(h.key[o], h.key[m])
  ELSE Nil

\* the node among R holding the greatest key less than the key of n, or nil
Before(h, R, n) ==
  IF \E m \in R : less(h.key[m], h.key[n])
  THEN CHOOSE m \in R :
         /\ less(h.key[m], h.key[n])
         /\ \A o \in R : less(h.key[o], h.key[n]) => ~less(h.key[m], h.key[o])
  ELSE Nil

\* the neighbours of n in key order among the nodes of the tree h
KeyAfter(h, n) == After(h, Reach(h), n)
KeyBefore(h, n) == Before(h, Reach(h), n)

\* the nodes of h0 other than z are the nodes of h1, each with the key and
\* Value it had, and Next() and Prev() of each lead to its neighbours in
\* key order among the nodes of h1
HandlesKept(h0, h1, z) ==
  \A R \in {Reach(h1)} :
    /\ R \ {z} = Reach(h0) \ {z}
    /\ \A n \in R \ {z} :
         /\ h1.key[n] = h0.key[n]
         /\ h1.Value[n] = h0.Value[n]
    /\ \A n \in R :
         /\ NextNode(h1, n) = After(h1, R, n)
         /\ Prev(h1, n) = Before(h1, R, n)

\* C15: a DeleteNode(z) call that returns unlinks the node z and no other,
\* an Insert call unlinks none: every other node stays reachable with its
\* key and its Value, and Next() and Prev() of a node held from before the
\* call return its neighbours in key order among the keys now in the tree.
\* (A step that makes Size() one less is the deletion of the one key that
\* left the tree; a step that makes it one more is the insertion of the one
\* key that joined it.)
HandlesSurvive ==
  [][Running' =>
       \A h0 \in {H} :
         /\ size' = size - 1 =>
              \A gone \in {TreeKeys \ TreeKeys'} :
                /\ Cardinality(gone) = 1
                /\ \A k \in gone :
                     \A z \in {FindNode(h0, k)} :
                       \A d \in {DeleteNode(h0, z)} :
                         /\ H' = [Relocate(d) EXCEPT !.log = << >>]
                         /\ z \notin Reach(d)
                         /\ HandlesKept(h0, d, z)
         /\ size' = size + 1 =>
              \A new \in {TreeKeys' \ TreeKeys} :
                /\ Cardinality(new) = 1
                /\ \A k \in new :
                     \A z \in {Fresh(h0)} :
                       \A d \in {Insert(h0, k, Find(H', k), z).h} :
                         /\ H' = [Relocate(d) EXCEPT !.log = << >>]
                         /\ z \in Reach(d) \ Reach(h0)
                         /\ HandlesKept(h0, d, z)]_vars

\* a node n whose Next() has two children and is not the last node: the
\* DeleteNode(n.Next()) call of the README example can be made on it
NextHasTwoChildren(n) ==
  LET z == NextNode(H, n) IN
  /\ z # Nil
  /\ left[z] # Nil /\ right[z] # Nil
  /\ NextNode(H, z) # Nil
  /\ ~Bad(DeleteNode(H, z))
  /\ NextNode(DeleteNode(H, z), n) = NextNode(H, z)

\* C15 witness: in a full tree that calls of both kinds built (a deletion
\* left its black heights unequal) a node n is followed by a node with two
\* children, whose deletion makes n.Next() the node two steps after n
HandlesSurviveWitness ==
  /\ Running
  /\ size = MaxNodes
  /\ BlackHeight(H, root) < 0
  /\ \E n \in Reach(H) : NextHasTwoChildren(n)

\* the step is the deletion of node z, which has two children
DeletesInner(z) ==
  /\ Running'
  /\ size' = size - 1
  /\ left[z] # Nil /\ right[z] # Nil
  /\ z \in Reach(H)
  /\ FindNode(H', key[z]) = Nil

\* C17 as stated: DeleteNode(n) on a node n with two children copies the
\* key and Value of a neighbour of n in key order into n and unlinks the
\* neighbour: after the call n is reachable and holds the neighbour's key
\* and Value, and the neighbour is not reachable.
NeighbourCopiedIn ==
  [][\A z \in Nodes : DeletesInner(z) =>
       \A d \in {DeleteNode(H, z)} :
         \E y \in {KeyBefore(H, z), KeyAfter(H, z)} \ {Nil} :
           /\ z \in Reach(d)
           /\ d.key[z] = key[y] /\ d.Value[z] = Value[y]
           /\ y \notin Reach(d)]_vars

\* y stands where z stood in h0: it has z's parent, left child and colour,
\* and z's right child unless it was that child
TakesPlace(h0, h1, z, y) ==
  /\ h1.parent[y] = h0.parent[z]
  /\ h1.left[y] = h0.left[z]
  /\ h1.parent[h0.left[z]] = y
  /\ h1.isred[y] = h0.isred[z]
  /\ h1.right[y] = (IF h0.right[z] = y THEN h0.right[y] ELSE h0.right[z])
  /\ IF h0.parent[z] = Nil THEN h1.root = y
     ELSE IF h0.left[h0.parent[z]] = z THEN h1.left[h0.parent[z]] = y
     ELSE h1.right[h0.parent[z]] = y

\* C17 amended: DeleteNode(n) on a node n with two children copies nothing:
\* n itself is unlinked, and the node y = n.right.min(), which holds the
\* greatest key less than n's, is moved to the place of n (n's parent, left
\* child and colour) before the fixup; after the call n is not reachable
\* and y is, with the key and Value it had.
NeighbourMovedIn ==
  [][\A z \in Nodes : DeletesInner(z) =>
       \A y \in {min(H, right[z])} :
         \A s \in {Splice(H, z)} :
           \A d \in {AfterSplice(s)} :
             /\ H' = [Relocate(d) EXCEPT !.log = << >>]
             /\ y = KeyBefore(H, z)
             /\ TakesPlace(H, s.h, z, y)
             /\ z \notin Reach(s.h) /\ z \notin Reach(d)
             /\ y \in Reach(d)
             /\ d.key[y] = key[y] /\ d.Value[y] = Value[y]
             /\ d.key[z] = key[z] /\ d.Value[z] = Value[z]]_vars

\* a node with two children whose right.min() is not its right child, and
\* whose deletion returns
InnerNodeDeletable(z) ==
  /\ left[z] # Nil /\ right[z] # Nil
  /\ left[right[z]] # Nil
  /\ ~Bad(DeleteNode(H, z))

\* C17 witness: a full tree with such a node, just after a DeleteNode call
\* and an Insert call put it together
NeighbourMovedInWitness ==
  /\ Running
  /\ size = MaxNodes
  /\ BlackHeight(H, root) < 0
  /\ \E z \in Reach(H) : InnerNodeDeletable(z)

\* the entries of a trace l that are rotations, and those that are
\* iterations of the loop of rb_insert_fixup
Rotations(l) == { i \in 1..Len(l) : l[i].e = "rotate" }
Iterations(l) == { i \in 1..Len(l) : l[i].e = "loop" }

\* at most two rotations; no iteration begins after a rotation; an
\* iteration that follows another begins two levels nearer the root
BoundedRestructuring(l) ==
  /\ Cardinality(Rotations(l)) <= 2
  /\ \A i \in Rotations(l), j \in Iterations(l) : j < i
  /\ \A j \in Iterations(l) :
       j + 1 \in Iterations(l) => l[j + 1].d = l[j].d - 2

\* C18: an Insert call makes at most two rotations (left_rotate and
\* right_rotate calls together); after the black-uncle case has rotated the
\* grandparent the loop of the fixup does not run again; only the red-uncle
\* case is followed by another iteration, which begins with x two levels
\* nearer the root.
InsertFixupBounded ==
  lastOp.op = "Insert" => Running /\ BoundedRestructuring(lastOp.log)

\* C18 witness: an Insert call recoloured under a red uncle, ran the loop
\* again two levels up and ended it there with two rotations
InsertFixupBoundedWitness ==
  /\ Running
  /\ lastOp.op = "Insert"
  /\ Cardinality(Iterations(lastOp.log)) = 2
  /\ Cardinality(Rotations(lastOp.log)) = 2
  /\ size = MaxNodes

\* C19: after every completed Insert, Delete and DeleteNode call the root
\* has a nil parent, the left and the right child of every reachable node
\* have that node as their parent, and the reachable nodes form a tree: no
\* node is reached by two paths and none lies on a cycle.
ParentLinksConsistent ==
  Running =>
    /\ root # Nil => parent[root] = Nil
    /\ \A n \in Reach(H) :
         /\ left[n] # Nil => parent[left[n]] = n
         /\ right[n] # Nil => parent[right[n]] = n
    /\ Len(Walk(H, root, MaxNodes + 1)) = Cardinality(Reach(H))
    /\ \A n \in Reach(H) : left[n] # n /\ right[n] # n
                           /\ (left[n] # Nil => left[n] # right[n])

\* C19 witness: a full tree of height four or more with unequal black
\* heights, in which a node below the root has two children
ParentLinksConsistentWitness ==
  /\ Running
  /\ size = MaxNodes
  /\ BlackHeight(H, root) < 0
  /\ Height(H, root) >= 4
  /\ \E n \in Reach(H) \ {root} : left[n] # Nil /\ right[n] # Nil

====
